---------------------------- MODULE Spec2Model ----------------------------
(***************************************************************************)
(* A model of the verifier selector (VerifierFactory.getVerifier) and of   *)
(* the two verifier variants (JharSevaVerifier, SignatureVerifier) of the  *)
(* ubi-verification-sdk.                                                   *)
(*                                                                         *)
(* JavaScript strings that the code inspects character by character (file  *)
(* names, issuer names) are sequences of one-character strings; a          *)
(* character outside ASCII is named by its code point ("U+212A").  Strings *)
(* the code only compares or copies (messages, method names, error         *)
(* phrases) are TLA+ strings.  JavaScript values of several types in one   *)
(* slot are records tagged by their type in the field t.                   *)
(***************************************************************************)
EXTENDS Integers, Sequences, FiniteSets, TLC

VARIABLES env, lib, heap, req, catalog

vars == <<env, lib, heap, req, catalog>>

(***************************************************************************)
(* JavaScript values                                                       *)
(***************************************************************************)
Undefined == [t |-> "undefined"]

Null == [t |-> "null"]

\* a string inspected by characters: s is a sequence of characters
Str(s) == [t |-> "string", s |-> s]

\* a string that is only compared or printed: lit is its text
Lit(x) == [t |-> "string", lit |-> x]

(***************************************************************************)
(* String.prototype.toLowerCase, the regular expressions of getVerifier    *)
(***************************************************************************)
LowerLetters ==
  <<"a","b","c","d","e","f","g","h","i","j","k","l","m",
    "n","o","p","q","r","s","t","u","v","w","x","y","z">>

UpperLetters ==
  <<"A","B","C","D","E","F","G","H","I","J","K","L","M",
    "N","O","P","Q","R","S","T","U","V","W","X","Y","Z">>

\* U+212A KELVIN SIGN: not in [a-zA-Z], and toLowerCase maps it to "k"
KelvinSign == "U+212A"

Range(f) == {f[i] : i \in DOMAIN f}

IsAsciiLetter(c) == c \in Range(LowerLetters) \cup Range(UpperLetters)

ToLowerChar(c) ==
  IF c \in Range(UpperLetters)
    THEN LowerLetters[CHOOSE i \in DOMAIN UpperLetters : UpperLetters[i] = c]
    ELSE IF c = KelvinSign THEN "k" ELSE c

\* s.toLowerCase()
ToLowerCase(s) == [i \in DOMAIN s |-> ToLowerChar(s[i])]

EndsWith(s, suffix) ==
  /\ Len(s) >= Len(suffix)
  /\ SubSeq(s, Len(s) - Len(suffix) + 1, Len(s)) = suffix

DropLast(s, n) == SubSeq(s, 1, Len(s) - n)

DotJs == <<".", "j", "s">>

VerifierWord == <<"v","e","r","i","f","i","e","r">>

\* /^[a-zA-Z]+$/.test(issuerName)
IssuerNameValid(s) == Len(s) > 0 /\ \A i \in DOMAIN s : IsAsciiLetter(s[i])

\* file.replace(/\.js$/i, "")
StripJsExtIgnoreCase(file) ==
  IF EndsWith(ToLowerCase(file), DotJs) THEN DropLast(file, 3) ELSE file

\* s.replace(/verifier$/i, "")
StripVerifierIgnoreCase(s) ==
  IF EndsWith(ToLowerCase(s), VerifierWord) THEN DropLast(s, 8) ELSE s

\* matchingFile.replace(/\.js$/, "")
StripJsExt(file) == IF EndsWith(file, DotJs) THEN DropLast(file, 3) ELSE file

\* the baseName of the find callback
BaseName(file) == ToLowerCase(StripVerifierIgnoreCase(StripJsExtIgnoreCase(file)))

\* a bug: the issuer name compared as given
NormalizeIssuerNameNoop(issuerName) == issuerName

\* const normalizedIssuerName = issuerName.toLowerCase()
NormalizeIssuerName(issuerName) == ToLowerCase(issuerName)

\* files.find(...): the first file whose base name is the normalized issuer
\* name, or Undefined
FindMatchingFile(files, normalizedIssuerName) ==
  LET hits == {i \in DOMAIN files : BaseName(files[i]) = normalizedIssuerName}
  IN IF hits = {} THEN Undefined
     ELSE Str(files[CHOOSE i \in hits : \A j \in hits : i <= j])


(***************************************************************************)
(* Errors: msg is the fixed text of the message, arg the value the         *)
(* template literal appends to it (Undefined when there is none)           *)
(***************************************************************************)
Error(msg, arg) == [msg |-> msg, arg |-> arg]

NoError == Error("", Undefined)

IssuerNameRequired ==
  Error("issuerName is required for online verification", Undefined)

InvalidNameFormat == Error("Invalid verifier name format", Undefined)

NoVerifierFileFound(issuerName) ==
  Error("No verifier file found for issuer: ", issuerName)

UnknownOnlineVerifier(issuerName) ==
  Error("Unknown online verifier: ", issuerName)

UnknownVerificationMethod(method) ==
  Error("Unknown verification method: ", method)

ApiNotSet ==
  Error("JHARSEVA_VERIFICATION_API environment variable is not set.", Undefined)

TokenNotSet ==
  Error("JHARSEVA_VERIFICATION_API_TOKEN environment variable is not set.",
        Undefined)

\* what fs.readdirSync and require throw: errors of the runtime
ReaddirFailed == Error("ENOENT: no such file or directory, scandir", Undefined)

RequireFailed(className) == Error("Cannot find module ", className)

\* !v for the values a config or a process.env entry holds here
Falsy(v) ==
  \/ v.t \in {"undefined", "null"}
  \/ v.t = "string" /\ "s" \in DOMAIN v /\ v.s = <<>>
  \/ v.t = "string" /\ "lit" \in DOMAIN v /\ v.lit = ""

(***************************************************************************)
(* The verifier variants' constructors                                     *)
(***************************************************************************)
NoVerifier == [class |-> "none"]

\* new SignatureVerifier(config): super(config, __filename); setTitle(_title)
SignatureVerifierNew(config) ==
  [ok |-> TRUE,
   instance |-> [class |-> "SignatureVerifier", config |-> config,
                 title |-> "sunbird-rc"]]

\* new JharSevaVerifier(): reads process.env, throws when a required entry is
\* not set.  module is the module the class was loaded from.
JharSevaVerifierNew(module, e) ==
  IF Falsy(e.apiEndpoint) THEN [ok |-> FALSE, error |-> ApiNotSet]
  ELSE IF Falsy(e.apiToken) THEN [ok |-> FALSE, error |-> TokenNotSet]
  ELSE [ok |-> TRUE,
        instance |-> [class |-> "JharSevaVerifier", module |-> module,
                      apiEndpoint |-> e.apiEndpoint, apiToken |-> e.apiToken,
                      expiryField |-> IF Falsy(e.expiryField)
                                        THEN "validUntil"
                                        ELSE e.expiryField.lit]]

(***************************************************************************)
(* VerifierFactory.getVerifier(config).  Its outcome: the instance         *)
(* returned or the error thrown, and what the call did on the way: what it *)
(* logged, how often it read the directory, which module it required, how  *)
(* many variants it instantiated.                                          *)
(***************************************************************************)
Outcome(verifier, thrown, logged, scans, matched, required, constructed) ==
  [verifier |-> verifier, thrown |-> thrown, logged |-> logged,
   scans |-> scans, matched |-> matched, required |-> required,
   constructed |-> constructed]

\* a bug: the catch block throws the error it caught
OnlineCatchRethrow(err, issuerName, e, scans, matched, required, constructed) ==
  Outcome(NoVerifier, err, IF e.production THEN <<>> ELSE <<err>>,
          scans, matched, required, constructed)

\* the catch block of the online branch
OnlineCatch(err, issuerName, e, scans, matched, required, constructed) ==
  Outcome(NoVerifier, UnknownOnlineVerifier(issuerName),
          IF e.production THEN <<>> ELSE <<err>>,
          scans, matched, required, constructed)

\* the try block of the online branch, each throw handed to the catch block
OnlineTry(config, e) ==
  LET issuerName == config.issuerName IN
  IF ~IssuerNameValid(issuerName.s)
    THEN OnlineCatch(InvalidNameFormat, issuerName, e, 0, Undefined, Undefined, 0)
  ELSE IF ~e.dirOk
    THEN OnlineCatch(ReaddirFailed, issuerName, e, 1, Undefined, Undefined, 0)
  ELSE
    LET matchingFile ==
          FindMatchingFile(e.files, NormalizeIssuerName(issuerName.s)) IN
    IF matchingFile = Undefined
      THEN OnlineCatch(NoVerifierFileFound(issuerName), issuerName, e,
                       1, Undefined, Undefined, 0)
    ELSE
      LET className == Str(StripJsExt(matchingFile.s)) IN
      IF ~e.requireOk
        THEN OnlineCatch(RequireFailed(className), issuerName, e,
                         1, matchingFile, className, 0)
      ELSE
        LET made == JharSevaVerifierNew(className, e) IN
        IF made.ok
          THEN Outcome(made.instance, NoError, <<>>,
                       1, matchingFile, className, 1)
          ELSE OnlineCatch(made.error, issuerName, e,
                           1, matchingFile, className, 1)

\* a bug: the default written with ||, which also replaces null
MethodOfOrDefault(config) ==
  IF Falsy(config.method) THEN Lit("online") ELSE config.method

\* const { method = "online", issuerName } = config
MethodOf(config) ==
  IF config.method = Undefined THEN Lit("online") ELSE config.method

\* a bug: the issuerName check moved into the try block
GetVerifierResultCheckInTry(config, e) ==
  LET method == MethodOf(config) IN
  IF method = Lit("online")
    THEN IF Falsy(config.issuerName)
           THEN OnlineCatch(IssuerNameRequired, config.issuerName, e,
                            0, Undefined, Undefined, 0)
           ELSE OnlineTry(config, e)
  ELSE IF method = Lit("offline")
    THEN Outcome(SignatureVerifierNew(config).instance, NoError, <<>>,
                 0, Undefined, Undefined, 1)
  ELSE Outcome(NoVerifier, UnknownVerificationMethod(method), <<>>,
               0, Undefined, Undefined, 0)

\* a bug: the issuerName check made before the method is looked at
GetVerifierResultCheckFirst(config, e) ==
  LET method == MethodOf(config) IN
  IF Falsy(config.issuerName)
    THEN Outcome(NoVerifier, IssuerNameRequired, <<>>,
                 0, Undefined, Undefined, 0)
  ELSE IF method = Lit("online") THEN OnlineTry(config, e)
  ELSE IF method = Lit("offline")
    THEN Outcome(SignatureVerifierNew(config).instance, NoError, <<>>,
                 0, Undefined, Undefined, 1)
  ELSE Outcome(NoVerifier, UnknownVerificationMethod(method), <<>>,
               0, Undefined, Undefined, 0)

GetVerifierResult(config, e) ==
  LET method == MethodOf(config) IN
  IF method = Lit("online")
    THEN IF Falsy(config.issuerName)
           THEN Outcome(NoVerifier, IssuerNameRequired, <<>>,
                        0, Undefined, Undefined, 0)
           ELSE OnlineTry(config, e)
  ELSE IF method = Lit("offline")
    THEN Outcome(SignatureVerifierNew(config).instance, NoError, <<>>,
                 0, Undefined, Undefined, 1)
  ELSE Outcome(NoVerifier, UnknownVerificationMethod(method), <<>>,
               0, Undefined, Undefined, 0)

(***************************************************************************)
(* Credentials, dates                                                      *)
(***************************************************************************)
\* the largest instant the clock shows
MaxClock == 2

\* the instants new Date() can return during a run
Clock == 1 .. MaxClock

\* a string that new Date(...) parses to the instant time
DateString(time) == [t |-> "string", iso |-> time]

Num(n) == [t |-> "number", n |-> n]

InvalidDate == [nan |-> TRUE]

Instant(time) == [nan |-> FALSE, time |-> time]

\* new Date(v): a date string gives its instant, a number the instant of that
\* many milliseconds, null the instant 0; any other string and undefined give
\* an Invalid Date, whose getTime() is NaN
NewDate(v) ==
  CASE v.t = "number" -> Instant(v.n)
    [] v.t = "null" -> Instant(0)
    [] v.t = "string" /\ "iso" \in DOMAIN v -> Instant(v.iso)
    [] OTHER -> InvalidDate

\* an object credential: its fields maps each field name it may carry to the
\* field's value, Undefined for a field it does not carry
FieldNames == {"validUntil", "expiresOn"}

Object(fields) == [t |-> "object", fields |-> fields]

\* an object whose property reads throw an error with this message (a
\* getter, a Proxy)
ThrowingObject(message) == [t |-> "throwing", message |-> message]

\* !validUpto
FalsyField(v) ==
  \/ v.t \in {"undefined", "null"}
  \/ v.t = "string" /\ "lit" \in DOMAIN v /\ v.lit = ""
  \/ v.t = "number" /\ v.n = 0

Valid == [isValid |-> TRUE]

Invalid(error) == [isValid |-> FALSE, error |-> error]

\* the messages property reads throw with
ThrownMessages == {"getter failed"}

\* "Error checking credential expiry: " + error.message
ExpiryCheckError(message) ==
  CASE message = "getter failed" ->
         "Error checking credential expiry: getter failed"

\* JharSevaVerifier.checkExpiry(credential), currentDate being now
CheckExpiry(self, credential, now) ==
  IF Falsy(credential)
    THEN Invalid("Invalid credential structure: missing credential data")
  ELSE IF credential.t = "throwing"
    THEN Invalid(ExpiryCheckError(credential.message))
  ELSE
    LET validUpto == credential.fields[self.expiryField] IN
    IF FalsyField(validUpto) THEN Valid
    ELSE
      LET expiryDate == NewDate(validUpto) IN
      IF expiryDate.nan THEN Invalid("Invalid expiry date format")
      ELSE IF now > expiryDate.time
        THEN Invalid("The credential has expired and is no longer valid.")
      ELSE Valid

(***************************************************************************)
(* The remote response and its translation                                 *)
(***************************************************************************)
\* the own properties of the errorTranslator object literal
ErrorTranslator ==
  ("Invalid credential" :> "The credential format is invalid or incomplete.")
  @@ ("Verification failed" :>
      "The credential could not be verified. Please ensure it is valid and not expired.")
  @@ ("Service unavailable" :>
      "The JharSeva verification service is temporarily unavailable. Please try again later.")
  @@ ("Invalid signature" :>
      "The credential's signature is invalid or has been tampered with.")
  @@ ("Expired credential" :>
      "The credential has expired and is no longer valid.")

\* property names every object literal inherits from Object.prototype
ObjectPrototypeKeys ==
  {"constructor", "toString", "valueOf", "hasOwnProperty", "__proto__"}

\* the value of an inherited property: a function or object, not a string
Inherited(key) == [t |-> "function", name |-> key]

GenericError == Lit("An unknown error occurred during verification.")

GenericRaw == Lit("An unknown error occurred")

\* this.errorTranslator[errObj.message]
Lookup(message) ==
  IF message.t # "string" THEN Undefined
  ELSE IF message.lit \in DOMAIN ErrorTranslator
    THEN Lit(ErrorTranslator[message.lit])
  ELSE IF message.lit \in ObjectPrototypeKeys THEN Inherited(message.lit)
  ELSE Undefined

\* a || b
OrElse(a, b) == IF Falsy(a) THEN b ELSE a

\* errObj.message: the message of an object entry, undefined on a string
MessageOf(errObj) ==
  IF errObj.t = "object" THEN errObj.message ELSE Undefined

\* reading a property of null or undefined throws a TypeError
Throws(errObj) == errObj.t \in {"null", "undefined"}

\* the pushError arrow function
PushError(errObj) ==
  [error |-> OrElse(Lookup(MessageOf(errObj)), GenericError),
   raw |-> OrElse(MessageOf(errObj), GenericRaw)]

\* a bug: the errors key carried on success as well
SuccessWithErrors ==
  [success |-> TRUE, message |-> "Credential verified successfully.",
   errors |-> <<>>]

Success == [success |-> TRUE, message |-> "Credential verified successfully."]

Failure(message, errors) ==
  [success |-> FALSE, message |-> message, errors |-> errors]

Returned(value) == [threw |-> FALSE, value |-> value]

Thrown(message) == [threw |-> TRUE, message |-> message]

TypeErrorMessage == "Cannot read properties of null (reading 'message')"

\* response?.data?.error
ErrorOf(response) ==
  IF response.t # "object" \/ response.data.t # "object"
    THEN Undefined
    ELSE response.data.error

\* the entries the error field yields: the items of a non-empty array, any
\* other truthy value as a single entry, nothing otherwise
Entries(error) ==
  IF error.t = "array" THEN error.items
  ELSE IF Falsy(error) THEN <<>>
  ELSE <<error>>

\* JharSevaVerifier.translateResponse(response)
TranslateResponse(response) ==
  LET entries == Entries(ErrorOf(response)) IN
  IF \E i \in DOMAIN entries : Throws(entries[i])
    THEN Thrown(TypeErrorMessage)
  ELSE
    LET formattedErrors == [i \in DOMAIN entries |-> PushError(entries[i])] IN
    IF Len(formattedErrors) > 0
      THEN Returned(Failure("Credential verification failed.", formattedErrors))
      ELSE Returned(Success)

\* the result verify returns when the expiry check fails
ExpiryFailure(expiryCheck) ==
  Failure("Credential verification failed.",
          <<[error |-> Lit(expiryCheck.error),
             raw |-> Lit("Credential expiration check failed")]>>)

\* the catch block of JharSevaVerifier.verify
VerifyCatch(message) ==
  Failure("Verification API error",
          <<[error |-> Lit(message), raw |-> Lit(message)]>>)

\* SignatureVerifier.verify(credential): isValid is the constant false
SignatureVerify(credential) ==
  [success |-> FALSE,
   message |-> "Credential verification using signature failed."]

(***************************************************************************)
(* JharSevaVerifier.verify(credential), in its two halves: up to the await *)
(* of axios.post, and from the settling of that promise on                 *)
(***************************************************************************)
Post(self, credential) ==
  [url |-> self.apiEndpoint, bearer |-> self.apiToken, payload |-> credential]

\* up to the await: either the result returned at once, or the request posted
VerifyUntilAwait(self, credential, now) ==
  LET expiryCheck == CheckExpiry(self, credential, now) IN
  IF ~expiryCheck.isValid
    THEN [done |-> TRUE, result |-> Returned(ExpiryFailure(expiryCheck)),
          posts |-> <<>>]
    ELSE [done |-> FALSE, posts |-> <<Post(self, credential)>>]

\* the promise resolved with response
VerifyOnResolve(response) ==
  LET translated == TranslateResponse(response) IN
  IF translated.threw
    THEN Returned(VerifyCatch(translated.message))
    ELSE translated

\* the promise rejected with an error whose message is message
VerifyOnReject(message) == Returned(VerifyCatch(message))

(***************************************************************************)
(* The issuer registry (config/issuers.js)                                 *)
(***************************************************************************)
Verifier_ == <<"V","e","r","i","f","i","e","r">>

Verifier_js == Verifier_ \o DotJs

\* the index of the first occurrence of pattern in s, 0 when there is none
IndexOf(s, pattern) ==
  LET at == {i \in 1 .. Len(s) - Len(pattern) + 1 :
               SubSeq(s, i, i + Len(pattern) - 1) = pattern}
  IN IF at = {} THEN 0 ELSE CHOOSE i \in at : \A j \in at : i <= j

\* a bug that happens to be the intent: the pattern removed at the end only
ReplaceFirstAtEnd(s, pattern) ==
  IF EndsWith(s, pattern) THEN DropLast(s, Len(pattern)) ELSE s

\* s.replace(pattern, "") with a string pattern: the first occurrence goes
ReplaceFirst(s, pattern) ==
  LET i == IndexOf(s, pattern) IN
  IF i = 0 THEN s
  ELSE SubSeq(s, 1, i - 1) \o SubSeq(s, i + Len(pattern), Len(s))

\* verifierNameToDisplayName(fileName)
VerifierNameToDisplayName(fileName) ==
  ReplaceFirst(ReplaceFirst(fileName, DotJs), Verifier_)

\* a bug: the id left in the file name's case
VerifierNameToIssuerIdCasePreserved(fileName) ==
  ReplaceFirst(ReplaceFirst(fileName, DotJs), Verifier_)

\* verifierNameToIssuerId(fileName)
VerifierNameToIssuerId(fileName) ==
  ToLowerCase(ReplaceFirst(ReplaceFirst(fileName, DotJs), Verifier_))

\* path.basename(file, ".js") of a name without directories
PathBasename(file) ==
  IF EndsWith(file, DotJs) /\ Len(file) > Len(DotJs)
    THEN DropLast(file, Len(DotJs))
    ELSE file

UnknownVerifier_ ==
  <<"U","n","k","n","o","w","n","V","e","r","i","f","i","e","r">>

\* VerifierInterface.getTitle() on an instance with these _title and
\* _filename, main being require.main.filename (Undefined without a main
\* module)
GetTitle(title, filename, main) ==
  IF ~Falsy(title) THEN title.s
  ELSE IF ~Falsy(filename) THEN PathBasename(filename.s)
  ELSE IF ~Falsy(main) THEN PathBasename(main.s)
  ELSE UnknownVerifier_

\* What a file of a verifier directory holds, as far as discovery can tell:
\* whether require loads it, whether new VerifierClass() returns, whether
\* the constructor hands __filename to super, the title the constructor
\* sets (Undefined for none), whether readFileSync reads the file, and the
\* title the _title pattern extracts from its text (Undefined for none).
Module(requireOk, constructOk, passesFilename, customTitle, readable, sourceTitle) ==
  [requireOk |-> requireOk, constructOk |-> constructOk,
   passesFilename |-> passesFilename, customTitle |-> customTitle,
   readable |-> readable, sourceTitle |-> sourceTitle]

\* title !== filenameDerivedTitle ? title : filenameDerivedName
DisplayName(title, file) ==
  IF title # PathBasename(file) THEN title ELSE VerifierNameToDisplayName(file)

\* the title of the try block: the instance's getTitle()
InstanceTitle(file, m, main) ==
  GetTitle(m.customTitle, IF m.passesFilename THEN Str(file) ELSE Null, main)

\* the title of the catch block: the _title constant of the file's text, or
\* the file name without its extension
FallbackTitle(file, m) ==
  IF m.readable /\ ~Falsy(m.sourceTitle) THEN m.sourceTitle.s
  ELSE PathBasename(file)

Instantiates(m) == m.requireOk /\ m.constructOk

Descriptor(id, name, title, type, description) ==
  [id |-> id, name |-> name, title |-> title, type |-> type,
   description |-> <<description, " credential verification">>]

\* the descriptor discoverOnlineVerifiers pushes for one file
OnlineDescriptor(file, m, main) ==
  LET title == IF Instantiates(m) THEN InstanceTitle(file, m, main)
               ELSE FallbackTitle(file, m)
  IN Descriptor(VerifierNameToIssuerId(file), DisplayName(title, file),
                title, "online", title)

\* the descriptor discoverOfflineVerifiers pushes for one file
OfflineDescriptor(file, m, main) ==
  IF Instantiates(m)
    THEN LET displayName == DisplayName(InstanceTitle(file, m, main), file)
         IN Descriptor(ToLowerCase(displayName), displayName, displayName,
                       "offline", displayName)
    ELSE LET title == FallbackTitle(file, m)
             displayName == DisplayName(title, file)
         IN Descriptor(ToLowerCase(displayName), displayName, title,
                       "offline", title)

\* the indices of the files that end with "Verifier.js", in order
Discovered(files) ==
  LET hits == {i \in DOMAIN files : EndsWith(files[i], Verifier_js)}
  IN [k \in 1 .. Cardinality(hits) |->
        CHOOSE i \in hits : Cardinality({j \in hits : j <= i}) = k]

\* a bug: a file that cannot be instantiated is left out
DiscoverOnlineVerifiersSkipFailing(dirOk, files, modules, main) ==
  IF ~dirOk THEN <<>>
  ELSE LET all == Discovered(files)
           ok == SelectSeq(all, LAMBDA i : Instantiates(modules[i]))
       IN [k \in DOMAIN ok |-> OnlineDescriptor(files[ok[k]], modules[ok[k]], main)]

\* discoverOnlineVerifiers(): no list when readdirSync throws
DiscoverOnlineVerifiers(dirOk, files, modules, main) ==
  IF ~dirOk THEN <<>>
  ELSE LET found == Discovered(files)
       IN [k \in DOMAIN found |->
             OnlineDescriptor(files[found[k]], modules[found[k]], main)]

\* discoverOfflineVerifiers()
DiscoverOfflineVerifiers(dirOk, files, modules, main) ==
  IF ~dirOk THEN <<>>
  ELSE LET found == Discovered(files)
       IN [k \in DOMAIN found |->
             OfflineDescriptor(files[found[k]], modules[found[k]], main)]

\* a bug: the offline listing put first
GetAllIssuersOfflineFirst(e, l) ==
  DiscoverOfflineVerifiers(l.offlineDirOk, l.offlineFiles, l.offline, l.main)
    \o DiscoverOnlineVerifiers(e.dirOk, e.files, l.online, l.main)

\* getAllIssuers()
GetAllIssuers(e, l) ==
  DiscoverOnlineVerifiers(e.dirOk, e.files, l.online, l.main)
    \o DiscoverOfflineVerifiers(l.offlineDirOk, l.offlineFiles, l.offline, l.main)

\* getIssuersByType(type)
GetIssuersByTypeResult(type, e, l) ==
  IF type = Lit("online")
    THEN DiscoverOnlineVerifiers(e.dirOk, e.files, l.online, l.main)
  ELSE IF type = Lit("offline")
    THEN DiscoverOfflineVerifiers(l.offlineDirOk, l.offlineFiles, l.offline,
                                  l.main)
  ELSE GetAllIssuers(e, l)

\* getIssuerById(id): allIssuers.find(issuer => issuer.id === id)
GetIssuerByIdResult(id, e, l) ==
  LET allIssuers == GetAllIssuers(e, l)
      hits == {i \in DOMAIN allIssuers : allIssuers[i].id = id}
  IN IF hits = {} THEN Undefined
     ELSE [t |-> "object",
           issuer |-> allIssuers[CHOOSE i \in hits : \A j \in hits : i <= j]]

(***************************************************************************)
(* The inputs                                                              *)
(***************************************************************************)
\* the longest error list a remote response carries
MaxErrors == 2

k_lower == <<"k">>

k_upper == <<"K">>

kVerifier_js == <<"k","V","e","r","i","f","i","e","r",".","j","s">>

KVERIFIER_JS == <<"K","V","E","R","I","F","I","E","R",".","J","S">>

k_js == <<"k",".","j","s">>

README_md == <<"R","E","A","D","M","E",".","m","d">>

\* what the online-verifiers directory may hold, in readdirSync's order
Directories ==
  {<<>>,
   <<README_md, kVerifier_js>>,
   <<KVERIFIER_JS, kVerifier_js>>,
   <<README_md, k_js>>}

Methods == {Undefined, Null, Lit("online"), Lit("offline"), Lit("sms")}

IssuerNames ==
  {Undefined, Null, Str(<<>>), Str(k_lower), Str(k_upper), Str(<<KelvinSign>>),
   Str(<<"k", "1">>), Str(<<"z", "z">>)}

Configs == [method : Methods, issuerName : IssuerNames]

Environments ==
  [files : Directories, dirOk : BOOLEAN, requireOk : BOOLEAN,
   apiEndpoint : {Undefined, Lit("https://jharseva.example/verify")},
   apiToken : {Undefined, Lit("token")},
   expiryField : {Undefined, Lit("expiresOn")},
   production : BOOLEAN]

KVerifier_js == <<"K","V","e","r","i","f","i","e","r",".","j","s">>

k1Verifier_js == <<"k","1","V","e","r","i","f","i","e","r",".","j","s">>

VerifierkVerifier_js ==
  <<"V","e","r","i","f","i","e","r","k","V","e","r","i","f","i","e","r",".","j","s">>

k_jsxVerifier_js ==
  <<"k",".","j","s","x","V","e","r","i","f","i","e","r",".","j","s">>

SignatureVerifier_js ==
  <<"S","i","g","n","a","t","u","r","e","V","e","r","i","f","i","e","r">>
    \o DotJs

server_js == <<"s","e","r","v","e","r",".","j","s">>

sunbird_rc == <<"s","u","n","b","i","r","d","-","r","c">>

\* JharSevaVerifier.js: super() without __filename, no title set, no _title
\* constant in its text; new JharSevaVerifier() throws when process.env lacks
\* an entry it requires
JharSevaModule(e) ==
  Module(e.requireOk, JharSevaVerifierNew(Undefined, e).ok, FALSE, Undefined,
         TRUE, Undefined)

\* SignatureVerifier.js: super(config, __filename), setTitle(_title)
SignatureModule ==
  Module(TRUE, TRUE, TRUE, Str(sunbird_rc), TRUE, Str(sunbird_rc))

\* a variant that hands __filename to super and sets no title
PlainModule == Module(TRUE, TRUE, TRUE, Undefined, TRUE, Undefined)

\* what this repository installs: JharSevaVerifier behind every file of the
\* online directory, SignatureVerifier.js in the offline directory, the
\* server's entry script as the main module
Installed(e) ==
  [online |-> [i \in DOMAIN e.files |-> JharSevaModule(e)],
   offlineFiles |-> <<SignatureVerifier_js>>,
   offline |-> <<SignatureModule>>,
   offlineDirOk |-> TRUE,
   main |-> Str(server_js)]

\* what a verifier file may hold
Modules ==
  {Module(TRUE, TRUE, FALSE, Undefined, TRUE, Undefined),
   Module(TRUE, FALSE, FALSE, Undefined, TRUE, Undefined),
   SignatureModule,
   PlainModule,
   Module(FALSE, FALSE, TRUE, Str(sunbird_rc), TRUE, Str(sunbird_rc)),
   Module(FALSE, FALSE, TRUE, Str(sunbird_rc), FALSE, Str(sunbird_rc))}

OfflineModules ==
  {SignatureModule, PlainModule,
   Module(FALSE, FALSE, TRUE, Str(sunbird_rc), TRUE, Str(sunbird_rc))}

\* directories the registry is asked about: names that differ in case only,
\* names in which "Verifier" or ".js" occurs before the end, a name with a
\* digit
RegistryDirectories ==
  Directories
    \cup {<<KVerifier_js, kVerifier_js>>,
          <<VerifierkVerifier_js>>,
          <<k_jsxVerifier_js>>,
          <<k1Verifier_js>>}

OfflineDirectories ==
  {<<>>, <<SignatureVerifier_js>>, <<SignatureVerifier_js, kVerifier_js>>}

RegistryEnvironments ==
  [files : RegistryDirectories, dirOk : BOOLEAN, requireOk : {TRUE},
   apiEndpoint : {Lit("https://jharseva.example/verify")},
   apiToken : {Lit("token")},
   expiryField : {Undefined},
   production : {FALSE}]

\* a module for every file; the files discovery passes over all hold the same
ModulesFor(files, modules) ==
  {ms \in [DOMAIN files -> modules] :
     \A i \in DOMAIN files :
       ~EndsWith(files[i], Verifier_js) => ms[i] = PlainModule}

Libraries(e) ==
  UNION {[online : ModulesFor(e.files, Modules),
          offlineFiles : {files},
          offline : ModulesFor(files, OfflineModules),
          offlineDirOk : BOOLEAN,
          main : {Undefined, Str(server_js)}] : files \in OfflineDirectories}

\* the types getIssuersByType is asked for, Undefined for none
Types == {Undefined, Lit("online"), Lit("offline"), Lit("sms")}

\* the ids getIssuerById is asked for
Ids == {k_lower, sunbird_rc, <<"z", "z">>}

ExpiryValues ==
  {Undefined, Null, Lit(""), Lit("not a date"), Num(0)}
    \cup {DateString(time) : time \in 0 .. MaxClock + 1}

Credential(validUntil, expiresOn) ==
  Object([f \in FieldNames |->
            IF f = "validUntil" THEN validUntil ELSE expiresOn])

Credentials ==
  {Undefined, Null}
    \cup {ThrowingObject(m) : m \in ThrownMessages}
    \cup {Credential(v, Undefined) : v \in ExpiryValues}
    \cup {Credential(Undefined, v) : v \in {DateString(0), DateString(MaxClock + 1)}}

Phrases == {"Invalid credential", "Quota exceeded", "constructor", ""}

EntryObjects ==
  {[t |-> "object", message |-> m] :
     m \in {Lit(p) : p \in Phrases} \cup {Undefined}}

\* what an error field holds as an entry: an object with a message, a bare
\* string, or null
Items == EntryObjects \cup {Lit("Verification failed"), Null}

SeqsUpTo(S, n) == UNION {[1 .. m -> S] : m \in 0 .. n}

ErrorFields ==
  {Undefined, Null} \cup (Items \ {Null})
    \cup {[t |-> "array", items |-> items] : items \in SeqsUpTo(Items, MaxErrors)}

Responses ==
  {[t |-> "object", data |-> d] :
     d \in {Undefined, Lit("<html>")}
             \cup {[t |-> "object", error |-> e] : e \in ErrorFields}}

TransportErrors ==
  {"timeout of 1000ms exceeded", "connect ECONNREFUSED 127.0.0.1:443",
   "Request failed with status code 500"}

(***************************************************************************)
(* The state: the process environment and the directory (env) and what the *)
(* verifier files hold (lib), which no request changes; the instances new  *)
(* has made (heap); each verification request's progress (req); the last   *)
(* answer of the issuer registry (catalog)                                 *)
(***************************************************************************)
Requests == {"r1", "r2"}

NoConfig == [method |-> Undefined, issuerName |-> Undefined]

NoOutcome == Outcome(NoVerifier, NoError, <<>>, 0, Undefined, Undefined, 0)

NoResult == [threw |-> FALSE, value |-> [pending |-> TRUE]]

Idle ==
  [pc |-> "idle", config |-> NoConfig, outcome |-> NoOutcome,
   credential |-> Undefined, now |-> 0, posts |-> <<>>,
   reply |-> Undefined, result |-> NoResult, ref |-> 0]

NoCatalog ==
  [query |-> "none", type |-> Undefined, id |-> Undefined,
   issuers |-> <<>>, found |-> Undefined]

\* a bug: one module-level instance, replaced by every getVerifier call
NewShared(h, instance) == <<instance>>

\* new VerifierClass(...): an object no earlier reference points to
New(h, instance) == Append(h, instance)

Init ==
  /\ env \in Environments
  /\ lib = Installed(env)
  /\ heap = <<>>
  /\ req = [r \in Requests |-> Idle]
  /\ catalog = NoCatalog

\* const verifier = VerifierFactory.getVerifier(config)
GetVerifier(r) ==
  /\ req[r].pc = "idle"
  /\ \E config \in Configs :
       LET outcome == GetVerifierResult(config, env) IN
       /\ heap' = IF outcome.thrown = NoError
                    THEN New(heap, outcome.verifier) ELSE heap
       /\ req' = [req EXCEPT ![r].config = config,
                             ![r].outcome = outcome,
                             ![r].ref = IF outcome.thrown = NoError
                                          THEN Len(heap') ELSE 0,
                             ![r].pc = IF outcome.thrown = NoError
                                         THEN "selected" ELSE "failed"]
  /\ UNCHANGED <<env, lib, catalog>>

\* verifier.verify(credential) on the offline variant
VerifySignature(r) ==
  /\ req[r].pc = "selected"
  /\ heap[req[r].ref].class = "SignatureVerifier"
  /\ \E credential \in Credentials :
       req' = [req EXCEPT ![r].credential = credential,
                          ![r].result = Returned(SignatureVerify(credential)),
                          ![r].pc = "done"]
  /\ UNCHANGED <<env, lib, heap, catalog>>

\* verifier.verify(credential) on the online variant, up to its await
VerifyJharSeva(r) ==
  /\ req[r].pc = "selected"
  /\ heap[req[r].ref].class = "JharSevaVerifier"
  /\ \E credential \in Credentials, now \in Clock :
       LET step == VerifyUntilAwait(heap[req[r].ref], credential, now) IN
       req' = [req EXCEPT ![r].credential = credential,
                          ![r].now = now,
                          ![r].posts = step.posts,
                          ![r].result = IF step.done THEN step.result ELSE @,
                          ![r].pc = IF step.done THEN "done" ELSE "awaiting"]
  /\ UNCHANGED <<env, lib, heap, catalog>>

\* the endpoint answers with a 2xx response
Resolve(r) ==
  /\ req[r].pc = "awaiting"
  /\ \E response \in Responses :
       req' = [req EXCEPT ![r].reply = response,
                          ![r].result = VerifyOnResolve(response),
                          ![r].pc = "done"]
  /\ UNCHANGED <<env, lib, heap, catalog>>

\* the call fails: a timeout, a refused connection, a non-2xx status
Reject(r) ==
  /\ req[r].pc = "awaiting"
  /\ \E message \in TransportErrors :
       req' = [req EXCEPT ![r].reply = [t |-> "rejected", message |-> message],
                          ![r].result = VerifyOnReject(message),
                          ![r].pc = "done"]
  /\ UNCHANGED <<env, lib, heap, catalog>>

\* getIssuersByType(type)
GetIssuersByType ==
  /\ \E type \in Types :
       catalog' = [query |-> "getIssuersByType", type |-> type,
                   id |-> Undefined,
                   issuers |-> GetIssuersByTypeResult(type, env, lib),
                   found |-> Undefined]
  /\ UNCHANGED <<env, lib, heap, req>>

\* getIssuerById(id)
GetIssuerById ==
  /\ \E id \in Ids :
       catalog' = [query |-> "getIssuerById", type |-> Undefined,
                   id |-> Str(id), issuers |-> <<>>,
                   found |-> GetIssuerByIdResult(id, env, lib)]
  /\ UNCHANGED <<env, lib, heap, req>>

Step(r) ==
  \/ GetVerifier(r)
  \/ VerifySignature(r)
  \/ VerifyJharSeva(r)
  \/ Resolve(r)
  \/ Reject(r)

\* one verification request on its own
Next == Step("r1")

Spec == Init /\ [][Next]_vars

\* two getVerifier calls against the same directory and environment
NextSelect == \E r \in Requests : GetVerifier(r)

\* selection reads neither NODE_ENV's effect on the error thrown nor the
\* expiry field name, so one value of each is enough here
InitSelect == Init /\ ~env.production /\ env.expiryField = Undefined

SpecSelect == InitSelect /\ [][NextSelect]_vars

\* the registry's queries, against every directory content and every choice
\* of what the files hold
NextRegistry == GetIssuersByType \/ GetIssuerById

InitRegistry ==
  /\ env \in RegistryEnvironments
  /\ lib \in Libraries(env)
  /\ heap = <<>>
  /\ req = [r \in Requests |-> Idle]
  /\ catalog = NoCatalog

SpecRegistry == InitRegistry /\ [][NextRegistry]_vars

\* a getVerifier call and the registry's listings against one directory
NextAgree == GetVerifier("r1") \/ GetIssuersByType

InitAgree ==
  /\ env \in [files : RegistryDirectories, dirOk : BOOLEAN,
               requireOk : BOOLEAN,
               apiEndpoint : {Lit("https://jharseva.example/verify")},
               apiToken : {Lit("token")},
               expiryField : {Undefined},
               production : {FALSE}]
  /\ lib = Installed(env)
  /\ heap = <<>>
  /\ req = [r \in Requests |-> Idle]
  /\ catalog = NoCatalog

SpecAgree == InitAgree /\ [][NextAgree]_vars

\* two verification requests served concurrently: each getVerifier call and
\* each verify call up to its await runs to its end, the requests' steps
\* interleave in every order
ConcEnvironment ==
  [files |-> <<README_md, kVerifier_js>>, dirOk |-> TRUE, requireOk |-> TRUE,
   apiEndpoint |-> Lit("https://jharseva.example/verify"),
   apiToken |-> Lit("token"), expiryField |-> Undefined,
   production |-> FALSE]

ConcConfigs ==
  {NoConfig,
   [method |-> Lit("offline"), issuerName |-> Undefined],
   [method |-> Undefined, issuerName |-> Str(k_lower)],
   [method |-> Lit("online"), issuerName |-> Str(k_upper)],
   [method |-> Lit("online"), issuerName |-> Str(<<"z", "z">>)]}

ConcCredentials ==
  {Undefined, Credential(Undefined, Undefined),
   Credential(DateString(0), Undefined),
   Credential(DateString(MaxClock + 1), Undefined)}

ConcReplies ==
  {Undefined,
   [t |-> "object", data |-> Lit("<html>")],
   [t |-> "object", data |-> [t |-> "object", error |-> Undefined]],
   [t |-> "object",
    data |-> [t |-> "object", error |-> Lit("Verification failed")]],
   [t |-> "rejected", message |-> "timeout of 1000ms exceeded"]}

NextConc ==
  \E r \in Requests :
    /\ Step(r)
    /\ req'[r].config \in ConcConfigs
    /\ req'[r].credential \in ConcCredentials
    /\ req'[r].reply \in ConcReplies

InitConc == Init /\ env = ConcEnvironment

SpecConc == InitConc /\ [][NextConc]_vars

(***************************************************************************)
(* Properties of the selector                                              *)
(***************************************************************************)
Called(r) == req[r].pc # "idle"

IsString(v) == v.t = "string"

\* the characters outside ASCII among the characters of the inputs
NonAscii == {KelvinSign}

AsciiOnly(s) == \A i \in DOMAIN s : s[i] \notin NonAscii

\* both calls fail, or both select the same verifier file
SameSelection(o1, o2) ==
  \/ o1.thrown # NoError /\ o2.thrown # NoError
  \/ o1.thrown = NoError /\ o2.thrown = NoError /\ o1.matched = o2.matched

\* two calls with method "online" whose issuer names are strings that are
\* equal after toLowerCase()
SameNameUpToCase(r1, r2) ==
  /\ Called(r1) /\ Called(r2)
  /\ req[r1].config.method = Lit("online")
  /\ req[r2].config.method = Lit("online")
  /\ IsString(req[r1].config.issuerName)
  /\ IsString(req[r2].config.issuerName)
  /\ ToLowerCase(req[r1].config.issuerName.s)
       = ToLowerCase(req[r2].config.issuerName.s)

\* C1 as stated: two online getVerifier calls whose issuer names are equal
\* after lowercasing both fail or both select the same verifier file.
C1_AnyNamesEqualAfterLowercasing ==
  \A r1, r2 \in Requests :
    SameNameUpToCase(r1, r2) => SameSelection(req[r1].outcome, req[r2].outcome)

\* C1 amended: two online getVerifier calls whose issuer names consist of
\* ASCII characters and are equal after lowercasing both fail or both select
\* the same verifier file.
C1_AsciiNamesCaseInsensitive ==
  \A r1, r2 \in Requests :
    ( /\ SameNameUpToCase(r1, r2)
      /\ AsciiOnly(req[r1].config.issuerName.s)
      /\ AsciiOnly(req[r2].config.issuerName.s) )
    => SameSelection(req[r1].outcome, req[r2].outcome)

\* two calls with names that differ in case only have selected the same file
C1_Witness ==
  /\ SameNameUpToCase("r1", "r2")
  /\ req["r1"].config.issuerName = Str(k_lower)
  /\ req["r2"].config.issuerName = Str(k_upper)
  /\ req["r1"].outcome.thrown = NoError
  /\ req["r2"].outcome.thrown = NoError
  /\ req["r1"].outcome.matched = req["r2"].outcome.matched
  /\ req["r1"].outcome.matched = Str(KVERIFIER_JS)

\* an online call with an issuer name matching ^[a-zA-Z]+$
WellFormedOnline(r) ==
  /\ Called(r)
  /\ req[r].config.method = Lit("online")
  /\ IsString(req[r].config.issuerName)
  /\ IssuerNameValid(req[r].config.issuerName.s)

NoVariantNamed(issuerName) ==
  \A i \in DOMAIN env.files : BaseName(env.files[i]) # ToLowerCase(issuerName.s)

LookupOrInstantiationErrs ==
  \/ ~env.dirOk
  \/ ~env.requireOk
  \/ Falsy(env.apiEndpoint)
  \/ Falsy(env.apiToken)

\* C2: an online call with a well-formed issuer name throws exactly
\* "Unknown online verifier: <issuerName>" when no file's base name is the
\* lowercased name, and when the lookup or the instantiation errs; no other
\* error, so no underlying cause, is ever thrown.
C2_UnknownOnlineVerifier ==
  \A r \in Requests :
    WellFormedOnline(r) =>
      /\ (NoVariantNamed(req[r].config.issuerName) \/ LookupOrInstantiationErrs)
           => req[r].outcome.thrown
                = [msg |-> "Unknown online verifier: ",
                   arg |-> req[r].config.issuerName]
      /\ req[r].outcome.thrown
           \in {NoError, [msg |-> "Unknown online verifier: ",
                          arg |-> req[r].config.issuerName]}

\* the constructor threw for a missing token, and the caller got the
\* unknown-verifier error
C2_Witness ==
  \E r \in Requests :
    /\ WellFormedOnline(r)
    /\ ~NoVariantNamed(req[r].config.issuerName)
    /\ req[r].outcome.constructed = 1
    /\ req[r].outcome.logged = <<TokenNotSet>>
    /\ req[r].outcome.thrown.msg = "Unknown online verifier: "

\* C3: an online call with issuerName absent or empty throws "issuerName is
\* required for online verification" without reading the directory,
\* requiring a module or instantiating a variant.
C3_IssuerNameRequired ==
  \A r \in Requests :
    ( /\ Called(r)
      /\ req[r].config.method = Lit("online")
      /\ req[r].config.issuerName \in {Undefined, Str(<<>>)} )
    => /\ req[r].outcome.thrown
            = [msg |-> "issuerName is required for online verification",
               arg |-> Undefined]
       /\ req[r].outcome.scans = 0
       /\ req[r].outcome.required = Undefined
       /\ req[r].outcome.constructed = 0

C3_Witness ==
  \E r \in Requests :
    /\ req[r].pc = "failed"
    /\ req[r].config.method = Lit("online")
    /\ req[r].config.issuerName = Str(<<>>)
    /\ req[r].outcome.thrown.msg = "issuerName is required for online verification"

\* C4 as stated: an online call whose issuerName does not match ^[a-zA-Z]+$
\* throws an error other than the one thrown for a well-formed name that
\* matches no variant ("Unknown online verifier: ...").
C4_InvalidFormatErrorDistinct ==
  \A r \in Requests :
    ( /\ Called(r)
      /\ req[r].config.method = Lit("online")
      /\ IsString(req[r].config.issuerName)
      /\ ~IssuerNameValid(req[r].config.issuerName.s) )
    => /\ req[r].outcome.thrown # NoError
       /\ req[r].outcome.thrown.msg # "Unknown online verifier: "

\* C5: an offline call returns a SignatureVerifier and throws nothing,
\* whatever issuerName is.
C5_OfflineAlwaysSignatureVerifier ==
  \A r \in Requests :
    (Called(r) /\ req[r].config.method = Lit("offline"))
    => /\ req[r].pc # "failed"
       /\ req[r].outcome.thrown = NoError
       /\ req[r].outcome.verifier.class = "SignatureVerifier"

C5_Witness ==
  \E r \in Requests, name \in {Undefined, Str(<<"k", "1">>)} :
    /\ req[r].pc = "selected"
    /\ req[r].config.method = Lit("offline")
    /\ req[r].config.issuerName = name
    /\ req[r].outcome.verifier.class = "SignatureVerifier"

\* C6 as stated: a call whose method is any value other than "online" and
\* "offline" throws "Unknown verification method: <method>" and instantiates
\* no variant.
C6_AnyOtherMethodUnknown ==
  \A r \in Requests :
    (Called(r) /\ req[r].config.method \notin {Lit("online"), Lit("offline")})
    => /\ req[r].outcome.thrown
            = [msg |-> "Unknown verification method: ",
               arg |-> req[r].config.method]
       /\ req[r].outcome.constructed = 0
       /\ req[r].outcome.verifier = NoVerifier

\* C6 amended: a call whose method is given (not undefined) and is other
\* than "online" and "offline" throws "Unknown verification method:
\* <method>" and instantiates no variant.
C6_GivenOtherMethodUnknown ==
  \A r \in Requests :
    ( /\ Called(r)
      /\ req[r].config.method # Undefined
      /\ req[r].config.method \notin {Lit("online"), Lit("offline")} )
    => /\ req[r].outcome.thrown
            = [msg |-> "Unknown verification method: ",
               arg |-> req[r].config.method]
       /\ req[r].outcome.constructed = 0
       /\ req[r].outcome.verifier = NoVerifier

C6_Witness ==
  \E r \in Requests :
    /\ req[r].pc = "failed"
    /\ req[r].config.method = Null
    /\ req[r].config.issuerName = Str(k_lower)
    /\ req[r].outcome.thrown.msg = "Unknown verification method: "

(***************************************************************************)
(* Properties of the online variant's verify                               *)
(***************************************************************************)
\* verify of the online variant has run at least up to its await
OnlineVerifyStarted(r) ==
  /\ req[r].pc \in {"awaiting", "done"}
  /\ req[r].outcome.verifier.class = "JharSevaVerifier"

OnlineVerifyDone(r) ==
  /\ req[r].pc = "done"
  /\ req[r].outcome.verifier.class = "JharSevaVerifier"

\* the value of the credential's expiry field
ExpiryFieldOf(r) ==
  req[r].credential.fields[req[r].outcome.verifier.expiryField]

ExpirySpecificErrors ==
  {Lit("The credential has expired and is no longer valid."),
   Lit("Invalid expiry date format")}

\* C7 as stated: in the online variant's verify, a credential without the
\* expiry field is followed by exactly one call to the endpoint, and a
\* credential whose expiry field is present (holds a value other than null)
\* and in the past or unparseable gets success:false with the expired or invalid-date-format error and no
\* call to the endpoint at all.
C7_CallIffExpiryCheckPasses ==
  \A r \in Requests :
    (OnlineVerifyStarted(r) /\ req[r].credential.t = "object") =>
      LET v == ExpiryFieldOf(r)
          d == NewDate(v)
      IN /\ v = Undefined => Len(req[r].posts) = 1
         /\ (v.t \notin {"undefined", "null"} /\ (d.nan \/ d.time < req[r].now))
              => /\ req[r].posts = <<>>
                 /\ req[r].pc = "done"
                 /\ ~req[r].result.threw
                 /\ req[r].result.value.success = FALSE
                 /\ Len(req[r].result.value.errors) = 1
                 /\ req[r].result.value.errors[1].error \in ExpirySpecificErrors

\* the remote response of request r carries n >= 1 error entries, each an
\* object whose message is a non-empty phrase
CarriesErrorPhrases(r) ==
  /\ OnlineVerifyDone(r)
  /\ req[r].reply.t = "object"
  /\ LET entries == Entries(ErrorOf(req[r].reply)) IN
       /\ Len(entries) >= 1
       /\ \A i \in DOMAIN entries :
            /\ entries[i].t = "object"
            /\ entries[i].message.t = "string"
            /\ entries[i].message.lit # ""

\* C8 as stated: a remote response carrying n >= 1 error entries gives
\* success:false and n errors in the same order, each with the entry's
\* phrase as raw and, as error, the dictionary's translation of the phrase,
\* or the generic unknown-error message when the dictionary has none.
C8_EveryEntryTranslated ==
  \A r \in Requests :
    CarriesErrorPhrases(r) =>
      LET entries == Entries(ErrorOf(req[r].reply))
          result == req[r].result.value
      IN /\ ~req[r].result.threw
         /\ result.success = FALSE
         /\ Len(result.errors) = Len(entries)
         /\ \A i \in DOMAIN entries :
              /\ result.errors[i].raw = entries[i].message
              /\ result.errors[i].error
                   = IF entries[i].message.lit \in DOMAIN ErrorTranslator
                       THEN Lit(ErrorTranslator[entries[i].message.lit])
                       ELSE Lit("An unknown error occurred during verification.")

\* the response has a body without an error field, or with an empty error
\* list
NoErrorReported(response) ==
  /\ response.t = "object"
  /\ response.data.t = "object"
  /\ response.data.error \in {Undefined, [t |-> "array", items |-> <<>>]}

\* C9: a response with no error field, or with an empty error list, makes
\* the online variant's verify return exactly {success: true, message:
\* "Credential verified successfully."}, without an errors key.
C9_SuccessExact ==
  \A r \in Requests :
    (OnlineVerifyDone(r) /\ NoErrorReported(req[r].reply)) =>
      /\ ~req[r].result.threw
      /\ req[r].result.value
           = [success |-> TRUE, message |-> "Credential verified successfully."]
      /\ "errors" \notin DOMAIN req[r].result.value

C9_Witness ==
  \E r \in Requests :
    /\ OnlineVerifyDone(r)
    /\ req[r].reply.t = "object"
    /\ req[r].reply.data.t = "object"
    /\ req[r].reply.data.error = [t |-> "array", items |-> <<>>]
    /\ req[r].result.value.success

\* a result of the shape VerificationResult: success:true with a message
\* and no errors key, or success:false with a message and a non-empty
\* errors list whose entries carry strings as error and raw
WellFormedResult(result) ==
  /\ DOMAIN result \subseteq {"success", "message", "errors"}
  /\ {"success", "message"} \subseteq DOMAIN result
  /\ result.success => "errors" \notin DOMAIN result
  /\ ~result.success =>
       /\ "errors" \in DOMAIN result
       /\ Len(result.errors) >= 1
       /\ \A i \in DOMAIN result.errors :
            /\ result.errors[i].error.t = "string"
            /\ result.errors[i].raw.t = "string"

\* C10 as stated: the online variant's verify never propagates an
\* exception; whatever the credential and however the network call ends it
\* returns a well-formed result, and after a transport failure a
\* success:false result with the single entry {error: <the transport
\* error's message>, raw: <the same message>}.
C10_AlwaysWellFormedResult ==
  \A r \in Requests :
    OnlineVerifyDone(r) =>
      /\ ~req[r].result.threw
      /\ WellFormedResult(req[r].result.value)
      /\ req[r].reply.t = "rejected" =>
           /\ req[r].result.value.success = FALSE
           /\ req[r].result.value.errors
                = <<[error |-> Lit(req[r].reply.message),
                     raw |-> Lit(req[r].reply.message)]>>

\* C11 as stated: every result a variant's verify returns, the online and
\* the offline variant's alike, is success:true with a message and no
\* errors key, or success:false with a message and a non-empty errors list
\* whose entries carry strings as error and raw.
C11_EveryResultWellFormed ==
  \A r \in Requests :
    req[r].pc = "done" =>
      /\ ~req[r].result.threw
      /\ WellFormedResult(req[r].result.value)


(***************************************************************************)
(* Properties of the issuer registry                                       *)
(***************************************************************************)
ListedOnline ==
  catalog.query = "getIssuersByType" /\ catalog.type = Lit("online")

ListedOffline ==
  catalog.query = "getIssuersByType" /\ catalog.type = Lit("offline")

\* the file the k-th descriptor of a listing was made from
FileOf(files, k) == files[Discovered(files)[k]]

\* the file name without its trailing "Verifier.js", in lower case
TrailingSuffixRemoved(file) == ToLowerCase(DropLast(file, Len(Verifier_js)))

\* C12 as stated: the identifier of every file whose name ends with
\* "Verifier.js" is the lower-cased name without its trailing "Verifier" and
\* ".js", also when "Verifier" or ".js" occurs earlier in the name.
C12_IdIsNameWithoutTrailingSuffix ==
  ListedOnline =>
    \A k \in DOMAIN catalog.issuers :
      catalog.issuers[k].id = TrailingSuffixRemoved(FileOf(env.files, k))

\* the module the k-th descriptor of the online listing was made from
OnlineModuleOf(k) == lib.online[Discovered(env.files)[k]]

NoCustomTitle(m) == m.customTitle = Undefined /\ m.sourceTitle = Undefined

\* C13 as stated: the descriptor of a discovered variant that supplies no
\* custom title carries the display name derived from its file name.
C13_NameFromFileNameWithoutCustomTitle ==
  ListedOnline =>
    \A k \in DOMAIN catalog.issuers :
      NoCustomTitle(OnlineModuleOf(k)) =>
        catalog.issuers[k].name
          = VerifierNameToDisplayName(FileOf(env.files, k))

OnlineListing ==
  DiscoverOnlineVerifiers(env.dirOk, env.files, lib.online, lib.main)

OfflineListing ==
  DiscoverOfflineVerifiers(lib.offlineDirOk, lib.offlineFiles, lib.offline,
                           lib.main)

AllOfType(issuers, type) ==
  \A k \in DOMAIN issuers : issuers[k].type = type

\* C14: getIssuersByType("online") returns online descriptors only and
\* getIssuersByType("offline") offline descriptors only; without a type the
\* answer is the online listing followed by the offline listing, each in its
\* order, nothing dropped and nothing twice.
C14_ListingByType ==
  catalog.query = "getIssuersByType" =>
    /\ catalog.type = Lit("online") => AllOfType(catalog.issuers, "online")
    /\ catalog.type = Lit("offline") => AllOfType(catalog.issuers, "offline")
    /\ catalog.type = Undefined =>
         /\ Len(catalog.issuers) = Len(OnlineListing) + Len(OfflineListing)
         /\ \A k \in DOMAIN OnlineListing :
              catalog.issuers[k] = OnlineListing[k]
         /\ \A k \in DOMAIN OfflineListing :
              catalog.issuers[Len(OnlineListing) + k] = OfflineListing[k]
         /\ AllOfType(OnlineListing, "online")
         /\ AllOfType(OfflineListing, "offline")

\* a listing without a type that holds descriptors of both types
C14_Witness ==
  /\ catalog.query = "getIssuersByType"
  /\ catalog.type = Undefined
  /\ Len(OnlineListing) = 2
  /\ Len(OfflineListing) = 2
  /\ Len(catalog.issuers) = 4

\* the number of files whose name ends with "Verifier.js"
VerifierFiles(files) ==
  Cardinality({i \in DOMAIN files : EndsWith(files[i], Verifier_js)})

\* the listing of a directory that could not be read is empty; otherwise it
\* has one descriptor per verifier file, in the directory's order, and the
\* descriptor of a file that failed to load or to instantiate carries the
\* title found in the file's text or, without one, the file's base name
OnePerFile(issuers, dirOk, files, modules) ==
  IF ~dirOk THEN issuers = <<>>
  ELSE
    /\ Len(issuers) = VerifierFiles(files)
    /\ \A k \in DOMAIN issuers :
         LET file == FileOf(files, k)
             m == modules[Discovered(files)[k]]
         IN ~Instantiates(m) =>
              /\ issuers[k].name = DisplayName(issuers[k].title, file)
              /\ issuers[k].title =
                   IF m.readable /\ m.sourceTitle # Undefined
                     THEN m.sourceTitle.s
                     ELSE PathBasename(file)

\* C15: discovery ends with a list for every directory content and every
\* set of files that fail to load, to instantiate or to be read: one
\* descriptor per file ending in "Verifier.js", a failing file's carrying the
\* statically extracted title or else the filename-derived one; a directory
\* that cannot be enumerated gives the empty list.
C15_DiscoveryNeverAborts ==
  /\ ListedOnline =>
       /\ OnePerFile(catalog.issuers, env.dirOk, env.files, lib.online)
       /\ \A k \in DOMAIN catalog.issuers :
            catalog.issuers[k].id
              = VerifierNameToIssuerId(FileOf(env.files, k))
  /\ ListedOffline =>
       OnePerFile(catalog.issuers, lib.offlineDirOk, lib.offlineFiles,
                  lib.offline)

\* an online listing of two files that both failed to load, one of them
\* unreadable as well
C15_Witness ==
  /\ ListedOnline
  /\ Len(catalog.issuers) = 2
  /\ \A k \in {1, 2} : ~Instantiates(OnlineModuleOf(k))
  /\ ~OnlineModuleOf(1).readable
  /\ OnlineModuleOf(2).readable
  /\ catalog.issuers[1].title # catalog.issuers[2].title

\* C16 as stated: within the listing of one type no two descriptors share
\* an id, whatever distinct file names the directory holds and whatever
\* titles the variants set.
C16_IdsUniqueWithinType ==
  (ListedOnline \/ ListedOffline) =>
    \A j, k \in DOMAIN catalog.issuers :
      j # k => catalog.issuers[j].id # catalog.issuers[k].id

(***************************************************************************)
(* The selector and the registry                                           *)
(***************************************************************************)
\* request r asked for an online verifier by a string name
AskedOnline(r) ==
  /\ Called(r)
  /\ MethodOf(req[r].config) = Lit("online")
  /\ IsString(req[r].config.issuerName)

\* C18 as stated: getVerifier resolves an issuer name to a file exactly when
\* the online listing has a descriptor with the lower-cased name as id made
\* from that file.
C18_SelectorAndRegistryAgree ==
  (AskedOnline("r1") /\ ListedOnline) =>
    LET matched == req["r1"].outcome.matched
        id == ToLowerCase(req["r1"].config.issuerName.s)
        listed == {k \in DOMAIN catalog.issuers : catalog.issuers[k].id = id}
    IN /\ matched # Undefined =>
            \E k \in listed : FileOf(env.files, k) = matched.s
       /\ listed # {} =>
            /\ matched # Undefined
            /\ \E k \in listed : FileOf(env.files, k) = matched.s

(***************************************************************************)
(* Concurrent requests                                                     *)
(***************************************************************************)
\* what verify returns to a request that runs alone with these inputs
ResultAlone(config, credential, now, reply) ==
  LET verifier == GetVerifierResult(config, env).verifier IN
  IF verifier.class = "SignatureVerifier"
    THEN Returned(SignatureVerify(credential))
  ELSE
    LET step == VerifyUntilAwait(verifier, credential, now) IN
    IF step.done THEN step.result
    ELSE IF reply.t = "rejected" THEN VerifyOnReject(reply.message)
    ELSE VerifyOnResolve(reply)

Holds(r) == req[r].ref # 0

\* C17: every getVerifier call returns an instance no other request holds,
\* the instance a request holds stays as its own call made it, and in every
\* interleaving of two requests each one's selection, posted call and result
\* are those of the request run alone on its inputs.
C17_RequestsIsolated ==
  /\ \A r, other \in Requests :
       (r # other /\ Holds(r) /\ Holds(other)) => req[r].ref # req[other].ref
  /\ \A r \in Requests :
       /\ Called(r) => req[r].outcome = GetVerifierResult(req[r].config, env)
       /\ Holds(r) => heap[req[r].ref] = req[r].outcome.verifier
       /\ req[r].pc = "awaiting" =>
            req[r].posts
              = VerifyUntilAwait(req[r].outcome.verifier, req[r].credential,
                                 req[r].now).posts
       /\ req[r].pc = "done" =>
            req[r].result
              = ResultAlone(req[r].config, req[r].credential, req[r].now,
                            req[r].reply)

\* two requests that ran side by side on different variants' instances and
\* ended with different results, the later instance's request among them
C17_Witness ==
  /\ \A r \in Requests : req[r].pc = "done"
  /\ req["r1"].ref = 2
  /\ req["r2"].ref = 1
  /\ req["r1"].outcome.verifier.class = "JharSevaVerifier"
  /\ req["r2"].outcome.verifier.class = "JharSevaVerifier"
  /\ req["r1"].result.value.success
  /\ ~req["r2"].result.value.success
  /\ req["r2"].posts # <<>>
=============================================================================
